---- MODULE Spec2Model ----
(***************************************************************************)
(* Photometric preset / modifier engine of the SimStudio add-on            *)
(* (asset_library.py) together with the operators that drive it            *)
(* (light_modifiers.py).                                                   *)
(*                                                                         *)
(* Numbers.  Python floats are modelled as fixed-point integers: the       *)
(* number x is the integer x * FP.  The presets, percentages and losses    *)
(* the model draws are chosen so that every product and quotient the       *)
(* engine computes on them is exact at this scale.  Angles in radians      *)
(* (spot_size) are integers in units of 1/10000 rad.                       *)
(*                                                                         *)
(* Strings.  A string is the sequence of its characters, so that the       *)
(* comma-joined 'ss_modifiers' property and str.split(',') are computed    *)
(* as the code computes them.                                              *)
(*                                                                         *)
(* Dictionaries.  A dict (a JSON record, the custom properties of a light) *)
(* is a function whose DOMAIN is the set of keys present.  None is the     *)
(* function with the empty domain (it is falsy, like the empty dict).      *)
(***************************************************************************)
EXTENDS Integers, Sequences, FiniteSets, TLC

VARIABLES lights, rigs, applied, fresh, last, prev, disk, cache, answer

vars == <<lights, rigs, applied, fresh, last, prev, disk, cache, answer>>

\* the scene, which the specifications of the store leave alone
scene_vars == <<lights, rigs, applied, fresh, last, prev>>

\* the store, which the specifications of the scene leave alone
store_vars == <<disk, cache, answer>>

----------------------------------------------------------------------------
(* Bounds of the model *)

\* at most this many successful apply_modifier_to_light calls between two
\* clear_modifiers on one light
MaxMods == 2

\* the same, in the two-light specification
MaxModsPair == 1

\* the same, in the specification of deep stacks
MaxModsDeep == 7

\* at most this many files in a directory of the store
MaxFiles == 2

\* at most this many operators run on a light before its first preset
MaxFreshOps == 2

----------------------------------------------------------------------------
(* Numbers *)

FP == 100

Num(n) == n * FP

FMul(a, b) == (a * b) \div FP

FDiv(a, b) == (a * FP) \div b

Min(a, b) == IF a <= b THEN a ELSE b

\* math.pi, in 1/10000 rad
Pi == 31416

\* math.radians(deg): deg is a fixed-point number of degrees, the result is
\* in 1/10000 rad
Radians(deg) == (deg * Pi) \div (180 * FP)

----------------------------------------------------------------------------
(* Dictionaries *)

None == << >>

Truthy(d) == DOMAIN d # {}

Has(d, k) == k \in DOMAIN d

Get(d, k, default) == IF k \in DOMAIN d THEN d[k] ELSE default

Put(d, k, v) == [x \in (DOMAIN d) \cup {k} |-> IF x = k THEN v ELSE d[x]]

----------------------------------------------------------------------------
(* Strings *)

EmptyStr == << >>

Unknown == <<"U", "n", "k", "n", "o", "w", "n">>

\* code points of the characters the model's names are made of
Ord(c) ==
    CASE c = "," -> 44
      [] c = "#" -> 35
      [] c = "." -> 46
      [] c = "2" -> 50
      [] c = "7" -> 55
      [] c = "A" -> 65
      [] c = "B" -> 66
      [] c = "D" -> 68
      [] c = "E" -> 69
      [] c = "G" -> 71
      [] c = "M" -> 77
      [] c = "N" -> 78
      [] c = "S" -> 83
      [] c = "T" -> 84
      [] c = "W" -> 87
      [] c = "Z" -> 90
      [] c = "a" -> 97
      [] c = "b" -> 98
      [] c = "j" -> 106
      [] c = "m" -> 109
      [] c = "r" -> 114
      [] c = "t" -> 116
      [] c = "x" -> 120
      [] OTHER -> 127

\* s < t in Python's string order
RECURSIVE StrLess(_, _)
StrLess(s, t) ==
    IF t = << >> THEN FALSE
    ELSE IF s = << >> THEN TRUE
    ELSE IF Ord(Head(s)) # Ord(Head(t)) THEN Ord(Head(s)) < Ord(Head(t))
    ELSE StrLess(Tail(s), Tail(t))

\* len(s.split(',')): one more than the number of commas
RECURSIVE CountCommas(_)
CountCommas(s) ==
    IF s = << >> THEN 0
    ELSE (IF Head(s) = "," THEN 1 ELSE 0) + CountCommas(Tail(s))

SplitLen(s) == CountCommas(s) + 1

----------------------------------------------------------------------------
(* The preset store: the JSON records of assets/lights and assets/modifiers *)

\* assets/lights/*.json, in os.listdir order
LightDir ==
    << [file |-> <<"B", ".", "j">>,
        data |-> [name |-> <<"B">>,
                  specs |-> [lumens |-> Num(20000), beam_angle_deg |-> Num(170),
                             cct_kelvin |-> Num(3200), power_watts |-> Num(300)]]],
       [file |-> <<"A", ".", "j">>,
        data |-> [name |-> <<"A">>,
                  specs |-> [lumens |-> Num(12000), beam_angle_deg |-> Num(120),
                             cct_kelvin |-> Num(5600), power_watts |-> Num(200)]]],
       [file |-> <<"W", ".", "j">>,
        data |-> [name |-> <<"W">>,
                  specs |-> [lumens |-> Num(8000), beam_angle_deg |-> Num(200)]]],
       [file |-> <<"E", ".", "j">>,
        data |-> [specs |-> << >>]],
       [file |-> <<"N", ".", "j">>,
        data |-> [name |-> <<"N">>]] >>

\* assets/modifiers/*.json, in os.listdir order
ModifierDir ==
    << [file |-> <<"S", ".", "j">>,
        data |-> [name |-> <<"S">>, type |-> "softbox",
                  specs |-> [light_loss_percent |-> Num(30)]]],
       [file |-> <<"G", ".", "j">>,
        data |-> [name |-> <<"G">>, type |-> "grid",
                  specs |-> [light_loss_percent |-> Num(20),
                             output_beam_angle_deg |-> Num(40),
                             edge_falloff |-> 30]]],
       [file |-> <<"D", ".", "j">>,
        data |-> [name |-> <<"D">>, type |-> "diffuser",
                  specs |-> [light_loss_percent |-> Num(10),
                             beam_angle_modifier_deg |-> Num(30),
                             softness |-> 60]]],
       [file |-> <<"T", ".", "j">>,
        data |-> [name |-> <<"T">>, type |-> "softbox",
                  specs |-> [light_loss_percent |-> Num(50),
                             output_beam_angle_deg |-> Num(60),
                             softness |-> 90]]],
       [file |-> <<"b", ".", "j">>,
        data |-> [name |-> << >>, type |-> "grid", specs |-> << >>]],
       [file |-> <<"a", ".", "j">>,
        data |-> [name |-> <<"a", ",", "b">>,
                  specs |-> [light_loss_percent |-> Num(100)]]],
       [file |-> <<"m", ".", "j">>,
        data |-> [type |-> "softbox"]] >>

\* presets.sort(key=lambda x: x['name']): a stable sort by name
RECURSIVE InsertByName(_, _)
InsertByName(e, sorted) ==
    IF sorted = << >> THEN <<e>>
    ELSE IF StrLess(e.name, Head(sorted).name) THEN <<e>> \o sorted
    ELSE <<Head(sorted)>> \o InsertByName(e, Tail(sorted))

RECURSIVE SortByName(_)
SortByName(entries) ==
    IF entries = << >> THEN << >>
    ELSE InsertByName(entries[Len(entries)],
                      SortByName(SubSeq(entries, 1, Len(entries) - 1)))

get_light_presets ==
    SortByName([i \in 1..Len(LightDir) |->
        [file |-> LightDir[i].file,
         name |-> Get(LightDir[i].data, "name", LightDir[i].file),
         data |-> LightDir[i].data]])

get_modifier_presets ==
    SortByName([i \in 1..Len(ModifierDir) |->
        [file |-> ModifierDir[i].file,
         name |-> Get(ModifierDir[i].data, "name", ModifierDir[i].file),
         type |-> Get(ModifierDir[i].data, "type", "unknown"),
         data |-> ModifierDir[i].data]])

\* a variant that keeps looking after a match
RECURSIVE LastNamed(_, _)
LastNamed(presets, preset_name) ==
    IF presets = << >> THEN None
    ELSE IF presets[Len(presets)].name = preset_name
         THEN presets[Len(presets)].data
    ELSE LastNamed(SubSeq(presets, 1, Len(presets) - 1), preset_name)

\* the data of the first listed preset with that name, None when there is none
RECURSIVE FirstNamed(_, _)
FirstNamed(presets, preset_name) ==
    IF presets = << >> THEN None
    ELSE IF Head(presets).name = preset_name THEN Head(presets).data
    ELSE FirstNamed(Tail(presets), preset_name)

load_preset_by_name(preset_name, preset_type) ==
    IF preset_type = "light"
    THEN FirstNamed(get_light_presets, preset_name)
    ELSE FirstNamed(get_modifier_presets, preset_name)

----------------------------------------------------------------------------
(* The engine: asset_library.py.  Each function is an operator from the     *)
(* light datablock it is given to [ok |-> its return value, light |-> the   *)
(* datablock when it returns].                                             *)

\* a variant that resets the dimming on every preset
initial_power_percent_reset(props) == Put(props, "ss_power_percent", Num(100))

\* "Initialize power percent to 100% if not set"
initial_power_percent(props) ==
    IF ~Has(props, "ss_power_percent")
    THEN Put(props, "ss_power_percent", Num(100))
    ELSE props

\* a variant that leaves the power percent out of the preset's output
preset_lumens_full(base_lumens, props) == base_lumens

\* "Apply energy based on power percent": the effective lumens of a preset
preset_lumens(base_lumens, props) ==
    FMul(base_lumens, FDiv(Get(props, "ss_power_percent", Num(100)), Num(100)))

\* a variant that starts the new preset with an empty modifier stack
apply_light_preset_clears_stack(light_data, preset_data) ==
    IF ~Truthy(preset_data) \/ ~Has(preset_data, "specs")
    THEN [ok |-> FALSE, light |-> light_data]
    ELSE
      LET specs == preset_data["specs"]
          base_lumens == Get(specs, "lumens", Num(12000))
          p1 == Put(light_data.props, "ss_preset_name",
                    Get(preset_data, "name", Unknown))
          p2 == Put(p1, "ss_base_lumens", base_lumens)
          p3 == Put(p2, "ss_base_beam_angle", Get(specs, "beam_angle_deg", Num(120)))
          p4 == Put(p3, "ss_power_watts", Get(specs, "power_watts", Num(200)))
          p5 == Put(initial_power_percent(p4), "ss_modifiers", EmptyStr)
          beam_angle_rad == Radians(Get(specs, "beam_angle_deg", Num(120)))
      IN [ok |-> TRUE,
          light |-> [type |-> "SPOT",
                     energy |-> FDiv(preset_lumens(base_lumens, p5), Num(100)),
                     temperature |-> Get(specs, "cct_kelvin", Num(5600)),
                     spot_size |-> Min(beam_angle_rad, Pi),
                     spot_blend |-> 15,
                     props |-> Put(p5, "ss_effective_lumens",
                                   preset_lumens(base_lumens, p5))]]

apply_light_preset(light_data, preset_data) ==
    IF ~Truthy(preset_data) \/ ~Has(preset_data, "specs")
    THEN [ok |-> FALSE, light |-> light_data]
    ELSE
      LET specs == preset_data["specs"]
          base_lumens == Get(specs, "lumens", Num(12000))
          p1 == Put(light_data.props, "ss_preset_name",
                    Get(preset_data, "name", Unknown))
          p2 == Put(p1, "ss_base_lumens", base_lumens)
          p3 == Put(p2, "ss_base_beam_angle", Get(specs, "beam_angle_deg", Num(120)))
          p4 == Put(p3, "ss_power_watts", Get(specs, "power_watts", Num(200)))
          p5 == initial_power_percent(p4)
          beam_angle_rad == Radians(Get(specs, "beam_angle_deg", Num(120)))
      IN [ok |-> TRUE,
          light |-> [type |-> "SPOT",
                     energy |-> FDiv(preset_lumens(base_lumens, p5), Num(100)),
                     temperature |-> Get(specs, "cct_kelvin", Num(5600)),
                     spot_size |-> Min(beam_angle_rad, Pi),
                     spot_blend |-> 15,
                     props |-> Put(p5, "ss_effective_lumens",
                                   preset_lumens(base_lumens, p5))]]

\* a variant that dims the current effective lumens instead of the base
power_lumens_compound(props) ==
    LET current == Get(props, "ss_effective_lumens",
                       Get(props, "ss_base_lumens", Num(12000)))
        power_pct == FDiv(Get(props, "ss_power_percent", Num(100)), Num(100))
    IN FMul(current, power_pct)

\* a variant with the 20 % per modifier its comment speaks of
power_lumens_20(props) ==
    LET base_lumens == Get(props, "ss_base_lumens", Num(12000))
        power_pct == FDiv(Get(props, "ss_power_percent", Num(100)), Num(100))
        modifiers == Get(props, "ss_modifiers", EmptyStr)
        modifier_loss == IF modifiers # EmptyStr
                         THEN SplitLen(modifiers) * 20
                         ELSE 0
    IN FMul(FMul(base_lumens, power_pct), Num(1) - modifier_loss)

\* the effective lumens a power change computes
power_lumens(props) ==
    LET base_lumens == Get(props, "ss_base_lumens", Num(12000))
        power_pct == FDiv(Get(props, "ss_power_percent", Num(100)), Num(100))
        modifiers == Get(props, "ss_modifiers", EmptyStr)
        modifier_loss == IF modifiers # EmptyStr
                         THEN SplitLen(modifiers) * 15
                         ELSE 0
    IN FMul(FMul(base_lumens, power_pct), Num(1) - modifier_loss)

\* a variant that also restores the unmodified beam
update_power_percent_reshaped(light_data) ==
    LET effective_lumens == power_lumens(light_data.props)
    IN [ok |-> TRUE,
        light |-> [light_data EXCEPT
                     !.energy = FDiv(effective_lumens, Num(100)),
                     !.spot_size = Radians(Get(light_data.props,
                                               "ss_base_beam_angle", Num(120))),
                     !.spot_blend = 15,
                     !.props = Put(@, "ss_effective_lumens", effective_lumens)]]

update_power_percent(light_data) ==
    LET effective_lumens == power_lumens(light_data.props)
    IN [ok |-> TRUE,
        light |-> [light_data EXCEPT
                     !.energy = FDiv(effective_lumens, Num(100)),
                     !.props = Put(@, "ss_effective_lumens", effective_lumens)]]

\* a variant that applies the loss to the dimmed output
modifier_lumens_dimmed(light_data, specs) ==
    LET base_lumens == Get(light_data.props, "ss_base_lumens",
                           FMul(light_data.energy, Num(100)))
        power_pct == FDiv(Get(light_data.props, "ss_power_percent", Num(100)),
                          Num(100))
        light_loss == FDiv(Get(specs, "light_loss_percent", 0), Num(100))
    IN FMul(FMul(base_lumens, power_pct), Num(1) - light_loss)

\* a variant that takes 12000 lm as the base of a light without preset
modifier_lumens_default_base(light_data, specs) ==
    LET base_lumens == Get(light_data.props, "ss_base_lumens", Num(12000))
        light_loss == FDiv(Get(specs, "light_loss_percent", 0), Num(100))
    IN FMul(base_lumens, Num(1) - light_loss)

\* "Calculate light loss": the effective lumens a modifier leaves
modifier_lumens(light_data, specs) ==
    LET base_lumens == Get(light_data.props, "ss_base_lumens",
                           FMul(light_data.energy, Num(100)))
        light_loss == FDiv(Get(specs, "light_loss_percent", 0), Num(100))
    IN FMul(base_lumens, Num(1) - light_loss)

\* a variant in which a grid or a softbox only ever narrows the current beam
modifier_shape_narrowing(light_data, mod_type, specs) ==
    LET base_angle == Get(light_data.props, "ss_base_beam_angle", Num(120))
    IN IF light_data.type = "SPOT" /\ mod_type = "grid"
       THEN [size |-> Min(light_data.spot_size,
                          Radians(Get(specs, "output_beam_angle_deg", base_angle))),
             blend |-> Get(specs, "edge_falloff", 50)]
       ELSE IF light_data.type = "SPOT" /\ mod_type = "diffuser"
       THEN [size |-> Radians(Min(base_angle
                                  + Get(specs, "beam_angle_modifier_deg", 0),
                                  Num(180))),
             blend |-> Get(specs, "softness", 50)]
       ELSE IF light_data.type = "SPOT" /\ mod_type = "softbox"
       THEN [size |-> Min(light_data.spot_size,
                          Radians(Get(specs, "output_beam_angle_deg", Num(90)))),
             blend |-> Get(specs, "softness", 75)]
       ELSE [size |-> light_data.spot_size, blend |-> light_data.spot_blend]

\* a variant in which a diffuser widens the current beam instead of the base
modifier_shape_widening(light_data, mod_type, specs) ==
    LET base_angle == Get(light_data.props, "ss_base_beam_angle", Num(120))
    IN IF light_data.type = "SPOT" /\ mod_type = "grid"
       THEN [size |-> Radians(Get(specs, "output_beam_angle_deg", base_angle)),
             blend |-> Get(specs, "edge_falloff", 50)]
       ELSE IF light_data.type = "SPOT" /\ mod_type = "diffuser"
       THEN [size |-> Min(light_data.spot_size
                          + Radians(Get(specs, "beam_angle_modifier_deg", 0)),
                          Pi),
             blend |-> Get(specs, "softness", 50)]
       ELSE IF light_data.type = "SPOT" /\ mod_type = "softbox"
       THEN [size |-> Radians(Get(specs, "output_beam_angle_deg", Num(90))),
             blend |-> Get(specs, "softness", 75)]
       ELSE [size |-> light_data.spot_size, blend |-> light_data.spot_blend]

\* a variant that shapes the beam without looking at the light's type
modifier_shape_any_type(light_data, mod_type, specs) ==
    LET base_angle == Get(light_data.props, "ss_base_beam_angle", Num(120))
    IN IF mod_type = "grid"
       THEN [size |-> Radians(Get(specs, "output_beam_angle_deg", base_angle)),
             blend |-> Get(specs, "edge_falloff", 50)]
       ELSE IF mod_type = "diffuser"
       THEN [size |-> Radians(Min(base_angle
                                  + Get(specs, "beam_angle_modifier_deg", 0),
                                  Num(180))),
             blend |-> Get(specs, "softness", 50)]
       ELSE IF mod_type = "softbox"
       THEN [size |-> Radians(Get(specs, "output_beam_angle_deg", Num(90))),
             blend |-> Get(specs, "softness", 75)]
       ELSE [size |-> light_data.spot_size, blend |-> light_data.spot_blend]

\* a variant in which a modifier of another kind restores the unmodified beam
modifier_shape_other_resets(light_data, mod_type, specs) ==
    LET base_angle == Get(light_data.props, "ss_base_beam_angle", Num(120))
    IN IF light_data.type = "SPOT" /\ mod_type = "grid"
       THEN [size |-> Radians(Get(specs, "output_beam_angle_deg", base_angle)),
             blend |-> Get(specs, "edge_falloff", 50)]
       ELSE IF light_data.type = "SPOT" /\ mod_type = "diffuser"
       THEN [size |-> Radians(Min(base_angle
                                  + Get(specs, "beam_angle_modifier_deg", 0),
                                  Num(180))),
             blend |-> Get(specs, "softness", 50)]
       ELSE IF light_data.type = "SPOT" /\ mod_type = "softbox"
       THEN [size |-> Radians(Get(specs, "output_beam_angle_deg", Num(90))),
             blend |-> Get(specs, "softness", 75)]
       ELSE IF light_data.type = "SPOT"
       THEN [size |-> Radians(base_angle), blend |-> 15]
       ELSE [size |-> light_data.spot_size, blend |-> light_data.spot_blend]

\* "Handle beam angle changes": spot_size and spot_blend after a modifier
modifier_shape(light_data, mod_type, specs) ==
    LET base_angle == Get(light_data.props, "ss_base_beam_angle", Num(120))
    IN IF light_data.type = "SPOT" /\ mod_type = "grid"
       THEN [size |-> Radians(Get(specs, "output_beam_angle_deg", base_angle)),
             blend |-> Get(specs, "edge_falloff", 50)]
       ELSE IF light_data.type = "SPOT" /\ mod_type = "diffuser"
       THEN [size |-> Radians(Min(base_angle
                                  + Get(specs, "beam_angle_modifier_deg", 0),
                                  Num(180))),
             blend |-> Get(specs, "softness", 50)]
       ELSE IF light_data.type = "SPOT" /\ mod_type = "softbox"
       THEN [size |-> Radians(Get(specs, "output_beam_angle_deg", Num(90))),
             blend |-> Get(specs, "softness", 75)]
       ELSE [size |-> light_data.spot_size, blend |-> light_data.spot_blend]

\* a variant that stores the base it computed its loss from
apply_modifier_to_light_stores_base(light_data, modifier_data) ==
    IF ~Truthy(modifier_data) \/ ~Has(modifier_data, "specs")
    THEN [ok |-> FALSE, light |-> light_data]
    ELSE
      LET specs == modifier_data["specs"]
          mod_type == Get(modifier_data, "type", "unknown")
          effective_lumens == modifier_lumens(light_data, specs)
          shaped == modifier_shape(light_data, mod_type, specs)
          current_mods == Get(light_data.props, "ss_modifiers", EmptyStr)
          new_mods == IF current_mods # EmptyStr
                      THEN current_mods \o <<",">> \o Get(modifier_data, "name", Unknown)
                      ELSE Get(modifier_data, "name", Unknown)
      IN [ok |-> TRUE,
          light |-> [light_data EXCEPT
                       !.energy = FDiv(effective_lumens, Num(100)),
                       !.spot_size = shaped.size,
                       !.spot_blend = shaped.blend,
                       !.props = Put(Put(Put(@, "ss_modifiers", new_mods),
                                         "ss_effective_lumens", effective_lumens),
                                     "ss_base_lumens",
                                     Get(light_data.props, "ss_base_lumens",
                                         FMul(light_data.energy, Num(100))))]]

apply_modifier_to_light(light_data, modifier_data) ==
    IF ~Truthy(modifier_data) \/ ~Has(modifier_data, "specs")
    THEN [ok |-> FALSE, light |-> light_data]
    ELSE
      LET specs == modifier_data["specs"]
          mod_type == Get(modifier_data, "type", "unknown")
          effective_lumens == modifier_lumens(light_data, specs)
          shaped == modifier_shape(light_data, mod_type, specs)
          current_mods == Get(light_data.props, "ss_modifiers", EmptyStr)
          new_mods == IF current_mods # EmptyStr
                      THEN current_mods \o <<",">> \o Get(modifier_data, "name", Unknown)
                      ELSE Get(modifier_data, "name", Unknown)
      IN [ok |-> TRUE,
          light |-> [light_data EXCEPT
                       !.energy = FDiv(effective_lumens, Num(100)),
                       !.spot_size = shaped.size,
                       !.spot_blend = shaped.blend,
                       !.props = Put(Put(@, "ss_modifiers", new_mods),
                                     "ss_effective_lumens", effective_lumens)]]

\* a variant that restores the dimmed output
clear_lumens_dimmed(light_data) ==
    FMul(Get(light_data.props, "ss_base_lumens", FMul(light_data.energy, Num(100))),
         FDiv(Get(light_data.props, "ss_power_percent", Num(100)), Num(100)))

\* the lumens clear_modifiers restores
clear_lumens(light_data) ==
    Get(light_data.props, "ss_base_lumens", FMul(light_data.energy, Num(100)))

\* a variant that also puts the power back to 100 percent
clear_modifiers_full_power(light_data) ==
    LET base_lumens == clear_lumens(light_data)
        base_angle == Get(light_data.props, "ss_base_beam_angle", Num(120))
    IN [ok |-> TRUE,
        light |-> [light_data EXCEPT
                     !.energy = FDiv(base_lumens, Num(100)),
                     !.spot_size = IF light_data.type = "SPOT"
                                   THEN Radians(base_angle) ELSE @,
                     !.spot_blend = IF light_data.type = "SPOT" THEN 15 ELSE @,
                     !.props = Put(Put(Put(@, "ss_modifiers", EmptyStr),
                                       "ss_effective_lumens", base_lumens),
                                   "ss_power_percent", Num(100))]]

\* a variant that leaves the stored effective lumens as they were
clear_modifiers_stale_lumens(light_data) ==
    LET base_lumens == clear_lumens(light_data)
        base_angle == Get(light_data.props, "ss_base_beam_angle", Num(120))
    IN [ok |-> TRUE,
        light |-> [light_data EXCEPT
                     !.energy = FDiv(base_lumens, Num(100)),
                     !.spot_size = IF light_data.type = "SPOT"
                                   THEN Radians(base_angle) ELSE @,
                     !.spot_blend = IF light_data.type = "SPOT" THEN 15 ELSE @,
                     !.props = Put(Put(@, "ss_modifiers", EmptyStr),
                                   "ss_effective_lumens",
                                   Get(light_data.props, "ss_effective_lumens",
                                       base_lumens))]]

clear_modifiers(light_data) ==
    LET base_lumens == clear_lumens(light_data)
        base_angle == Get(light_data.props, "ss_base_beam_angle", Num(120))
    IN [ok |-> TRUE,
        light |-> [light_data EXCEPT
                     !.energy = FDiv(base_lumens, Num(100)),
                     !.spot_size = IF light_data.type = "SPOT"
                                   THEN Radians(base_angle) ELSE @,
                     !.spot_blend = IF light_data.type = "SPOT" THEN 15 ELSE @,
                     !.props = Put(Put(@, "ss_modifiers", EmptyStr),
                                   "ss_effective_lumens", base_lumens)]]

----------------------------------------------------------------------------
(* The scene: the light datablocks, and the operators of light_modifiers.py *)

Lights == {1, 2}

\* a light datablock as the host creates it, before any operator ran on it
FreshLight(type) ==
    [type |-> type, energy |-> Num(10), temperature |-> Num(6500),
     spot_size |-> Radians(Num(45)), spot_blend |-> 15, props |-> << >>]

\* light 1 is the child of a rig object that has the "SimStudio Rig" modifier,
\* its "Show Diffuser" input off; light 2 has no parent
Rigs == [l \in Lights |-> [parent |-> l = 1, show |-> FALSE]]

\* the names the operators are invoked with: every listed name and one that
\* no record has
LightNames ==
    {get_light_presets[i].name : i \in 1..Len(get_light_presets)} \cup {<<"Z">>}

ModifierNames ==
    {get_modifier_presets[i].name : i \in 1..Len(get_modifier_presets)}
        \cup {<<"Z">>}

\* the values the power dialog is confirmed with
PowerInputs == {Num(-20), Num(0), Num(50), Num(100), Num(150)}

\* the inputs of the two-light specification
PairLightNames == {<<"A">>, <<"B">>}

PairModifierNames == {<<"S">>}

PairPowerInputs == {Num(50), Num(100)}

\* FloatProperty(min=0.0, max=100.0): the host clamps the value it stores
\* a variant that stores the value as it was given
power_percent_unclamped(value) == value

power_percent(value) ==
    IF value < Num(0) THEN Num(0)
    ELSE IF value > Num(100) THEN Num(100)
    ELSE value

NoOp == [op |-> "none", l |-> 0, name |-> EmptyStr, pct |-> 0, ok |-> FALSE]

Done(op, l, name, pct, ok) ==
    [op |-> op, l |-> l, name |-> name, pct |-> pct, ok |-> ok]

\* what prev keeps of the operator before the last one (the specification of
\* operator sequences records it)
Brief(d) == [op |-> d.op, l |-> d.l, pct |-> d.pct]

Configured(light_data) == Has(light_data.props, "ss_base_lumens")

\* the operators run on a light that has no preset yet are counted
CanRun(l) == Configured(lights[l]) \/ fresh[l] < MaxFreshOps

Counted(l) == [fresh EXCEPT ![l] = IF Configured(lights[l]) THEN 0 ELSE @ + 1]

\* SS_OT_apply_light_preset.execute
SS_OT_apply_light_preset(l, preset_name) ==
    LET preset_data == load_preset_by_name(preset_name, "light")
        r == apply_light_preset(lights[l], preset_data)
    IN /\ lights' = [lights EXCEPT ![l] = r.light]
       /\ applied' = applied
       /\ rigs' = rigs
       /\ fresh' = [fresh EXCEPT ![l] = IF r.ok THEN 0 ELSE @]
       /\ last' = Done("apply_preset", l, preset_name, 0, r.ok)

\* SS_OT_add_modifier.execute
SS_OT_add_modifier(l, modifier_name, max) ==
    LET modifier_data == load_preset_by_name(modifier_name, "modifier")
        r == IF ~Truthy(modifier_data)
             THEN [ok |-> FALSE, light |-> lights[l]]
             ELSE apply_modifier_to_light(lights[l], modifier_data)
        \* 'diffuser' in m_type or 'softbox' in m_type, over the types of the store
        m_type == Get(modifier_data, "type", "")
        shows == /\ Truthy(modifier_data)
                 /\ rigs[l].parent
                 /\ m_type \in {"diffuser", "softbox"}
    IN /\ applied[l] < max
       /\ CanRun(l)
       /\ lights' = [lights EXCEPT ![l] = r.light]
       /\ rigs' = [rigs EXCEPT ![l].show = IF shows THEN TRUE ELSE @]
       /\ applied' = [applied EXCEPT ![l] = IF r.ok THEN @ + 1 ELSE @]
       /\ fresh' = Counted(l)
       /\ last' = Done("add_modifier", l, modifier_name, 0, r.ok)

\* a variant that clears the modifiers of every light of the scene
SS_OT_clear_modifiers_all(l) ==
    LET r == clear_modifiers(lights[l])
    IN /\ CanRun(l)
       /\ lights' = [m \in Lights |-> clear_modifiers(lights[m]).light]
       /\ rigs' = [rigs EXCEPT ![l].show = IF rigs[l].parent THEN FALSE ELSE @]
       /\ applied' = [applied EXCEPT ![l] = 0]
       /\ fresh' = Counted(l)
       /\ last' = Done("clear_modifiers", l, EmptyStr, 0, r.ok)

\* SS_OT_clear_modifiers.execute
SS_OT_clear_modifiers(l) ==
    LET r == clear_modifiers(lights[l])
    IN /\ CanRun(l)
       /\ lights' = [lights EXCEPT ![l] = r.light]
       /\ rigs' = [rigs EXCEPT ![l].show = IF rigs[l].parent THEN FALSE ELSE @]
       /\ applied' = [applied EXCEPT ![l] = 0]
       /\ fresh' = Counted(l)
       /\ last' = Done("clear_modifiers", l, EmptyStr, 0, r.ok)

\* SS_OT_set_power.execute
SS_OT_set_power(l, value) ==
    LET stored == [lights[l] EXCEPT
                     !.props = Put(@, "ss_power_percent", power_percent(value))]
        r == update_power_percent(stored)
    IN /\ CanRun(l)
       /\ lights' = [lights EXCEPT ![l] = r.light]
       /\ rigs' = rigs
       /\ applied' = applied
       /\ fresh' = Counted(l)
       /\ last' = Done("set_power", l, EmptyStr, value, r.ok)

----------------------------------------------------------------------------
(* The preset store as a process: the two directories on disk, the two      *)
(* module-level caches, and what the last call returned.  A file is         *)
(* [file, json, data]: json is "object" when json.load yields a dict and    *)
(* "invalid" when json.load (or data.get on what it yields) raises.  The    *)
(* extension ".json" is written ".j".  A name that is a JSON number n is    *)
(* written "#n"; no string of the store begins with "#".                    *)

Categories == {"light", "modifier"}

\* files that may lie in assets/lights
LightFiles ==
    { [file |-> <<"B", ".", "j">>, json |-> "object", data |-> LightDir[1].data],
      [file |-> <<"a", ".", "j">>, json |-> "object",
       data |-> [name |-> <<"a">>, specs |-> [lumens |-> Num(5000)]]],
      [file |-> <<"B", "2", ".", "j">>, json |-> "object",
       data |-> [name |-> <<"B">>, specs |-> [lumens |-> Num(8000)]]],
      [file |-> <<"E", ".", "j">>, json |-> "object", data |-> LightDir[4].data],
      [file |-> <<"x", ".", "j">>, json |-> "invalid", data |-> << >>],
      [file |-> <<"7", ".", "j">>, json |-> "object",
       data |-> [name |-> <<"#", "7">>, specs |-> [lumens |-> Num(7000)]]],
      [file |-> <<"r", ".", "t">>, json |-> "object",
       data |-> [name |-> <<"r">>, specs |-> [lumens |-> Num(100)]]] }

\* files that may lie in assets/modifiers
ModifierFiles ==
    { [file |-> <<"M", ".", "j">>, json |-> "object",
       data |-> [name |-> <<"M">>, type |-> "softbox",
                 specs |-> [light_loss_percent |-> Num(30)]]],
      [file |-> <<"B", ".", "j">>, json |-> "object",
       data |-> [name |-> <<"B">>, specs |-> [light_loss_percent |-> Num(20)]]] }

\* the directories of at most max files of a set, in every os.listdir order
Directories(files, max) ==
    { d \in UNION { [1..n -> files] : n \in 0..max } :
        \A i, j \in DOMAIN d : i # j => d[i] # d[j] }

\* a directory that does not exist
Missing == [exists |-> FALSE, files |-> << >>]

Existing(files) == [exists |-> TRUE, files |-> files]

\* the directories the scene's operators find: LightDir and ModifierDir
AssetsDisk ==
    [light |-> Existing([i \in 1..Len(LightDir) |->
                  [file |-> LightDir[i].file, json |-> "object",
                   data |-> LightDir[i].data]]),
     modifier |-> Existing([i \in 1..Len(ModifierDir) |->
                  [file |-> ModifierDir[i].file, json |-> "object",
                   data |-> ModifierDir[i].data]])]

\* filename.endswith(".json")
EndsWithJson(filename) ==
    /\ Len(filename) >= 2
    /\ SubSeq(filename, Len(filename) - 1, Len(filename)) = <<".", "j">>

\* the entry get_light_presets / get_modifier_presets appends for a file
PresetEntry(f, category) ==
    IF category = "light"
    THEN [file |-> f.file, name |-> Get(f.data, "name", f.file), data |-> f.data]
    ELSE [file |-> f.file, name |-> Get(f.data, "name", f.file),
          type |-> Get(f.data, "type", "unknown"), data |-> f.data]

\* the loop over os.listdir: the entries of the files that end in .json and
\* load, in directory order
RECURSIVE LoadedEntries(_, _)
LoadedEntries(files, category) ==
    IF files = << >> THEN << >>
    ELSE LET f == Head(files)
             rest == LoadedEntries(Tail(files), category)
         IN IF EndsWithJson(f.file) /\ f.json = "object"
            THEN <<PresetEntry(f, category)>> \o rest
            ELSE rest

\* a name that is a str
IsStr(name) == name = << >> \/ Head(name) # "#"

\* presets.sort(key=lambda x: x['name']) raises TypeError when it compares a
\* str with a number
SortRaises(presets) ==
    \E i, j \in DOMAIN presets : IsStr(presets[i].name) # IsStr(presets[j].name)

\* a variant that keeps the order of os.listdir
read_presets_unsorted(directory, category) ==
    LET presets == IF directory.exists
                   THEN LoadedEntries(directory.files, category)
                   ELSE << >>
    IN IF SortRaises(presets)
       THEN [raised |-> TRUE, presets |-> << >>]
       ELSE [raised |-> FALSE, presets |-> presets]

\* the body of get_light_presets / get_modifier_presets after the cache test
read_presets(directory, category) ==
    LET presets == IF directory.exists
                   THEN LoadedEntries(directory.files, category)
                   ELSE << >>
    IN IF SortRaises(presets)
       THEN [raised |-> TRUE, presets |-> << >>]
       ELSE [raised |-> FALSE, presets |-> SortByName(presets)]

\* _LIGHT_PRESETS_CACHE = None
NoCache == [set |-> FALSE, presets |-> << >>]

Cached(presets) == [set |-> TRUE, presets |-> presets]

\* a variant that reads the directory whenever it is asked
get_presets_uncached(category) ==
    LET r == read_presets(disk[category], category)
    IN [raised |-> r.raised, presets |-> r.presets,
        cache |-> IF r.raised THEN cache
                  ELSE [cache EXCEPT ![category] = Cached(r.presets)]]

\* get_light_presets() / get_modifier_presets(): what the call returns (or
\* that it raised) and the caches it leaves
get_presets(category) ==
    IF cache[category].set
    THEN [raised |-> FALSE, presets |-> cache[category].presets, cache |-> cache]
    ELSE LET r == read_presets(disk[category], category)
         IN [raised |-> r.raised, presets |-> r.presets,
             cache |-> IF r.raised THEN cache
                       ELSE [cache EXCEPT ![category] = Cached(r.presets)]]

\* the listings as the panel's first draw cached them
AssetsCache ==
    [light |-> Cached(get_light_presets),
     modifier |-> Cached(get_modifier_presets)]

\* preset_type == 'light' selects the lights, anything else the modifiers
CategoryOf(preset_type) == IF preset_type = "light" THEN "light" ELSE "modifier"

NoAnswer ==
    [op |-> "none", category |-> "light", name |-> EmptyStr, raised |-> FALSE,
     presets |-> << >>, data |-> None]

\* get_light_presets / get_modifier_presets called
GetPresets(category) ==
    LET r == get_presets(category)
    IN /\ cache' = r.cache
       /\ disk' = disk
       /\ answer' = [op |-> "get_presets", category |-> category,
                     name |-> EmptyStr, raised |-> r.raised,
                     presets |-> r.presets, data |-> None]

\* load_preset_by_name(preset_name, preset_type) called
LoadPresetByName(preset_name, preset_type) ==
    LET r == get_presets(CategoryOf(preset_type))
    IN /\ cache' = r.cache
       /\ disk' = disk
       /\ answer' = [op |-> "load_preset_by_name",
                     category |-> CategoryOf(preset_type),
                     name |-> preset_name, raised |-> r.raised,
                     presets |-> << >>,
                     data |-> IF r.raised THEN None
                              ELSE FirstNamed(r.presets, preset_name)]

\* reload_assets(): both caches are None again
reload_assets == [c \in Categories |-> NoCache]

\* SS_OT_reload_assets.execute
SS_OT_reload_assets ==
    /\ cache' = reload_assets
    /\ disk' = disk
    /\ answer' = [NoAnswer EXCEPT !.op = "reload_assets"]

\* the names load_preset_by_name is called with
StoreNames == {<<"B">>, <<"a">>, <<"E", ".", "j">>, <<"M">>, <<"Z">>}

(* Any directory, never changed: the listing as a function of the directory *)

InitListing ==
    /\ lights = [l \in Lights |-> FreshLight("SPOT")]
    /\ rigs = Rigs
    /\ applied = [l \in Lights |-> 0]
    /\ fresh = [l \in Lights |-> 0]
    /\ last = NoOp
    /\ prev = Brief(NoOp)
    /\ \E dl \in Directories(LightFiles, MaxFiles) \cup {<< >>},
          dm \in Directories(ModifierFiles, 1) :
         disk = [light |-> Existing(dl), modifier |-> Existing(dm)]
    /\ cache = [c \in Categories |-> NoCache]
    /\ answer = NoAnswer

ListPresets == \E c \in Categories : GetPresets(c)

LoadByName ==
    \E n \in StoreNames, t \in {"light", "modifier"} : LoadPresetByName(n, t)

ReloadAssets == SS_OT_reload_assets

NextListing ==
    /\ (ListPresets \/ LoadByName \/ ReloadAssets)
    /\ UNCHANGED scene_vars

SpecListing == InitListing /\ [][NextListing]_vars

(* A few directories, changed on disk while the add-on runs *)

\* the contents assets/lights takes in turn
LightSnapshots ==
    { Missing, Existing(<< >>) }
      \cup { Existing(d) : d \in { <<f>> : f \in {g \in LightFiles : g.file = <<"B", ".", "j">>} } }
      \cup { Existing(d) : d \in { <<f, g>> : f \in {h \in LightFiles : h.file = <<"B", ".", "j">>},
                                             g \in {h \in LightFiles : h.file = <<"a", ".", "j">>} } }

\* the contents assets/modifiers takes in turn
ModifierSnapshots ==
    { Missing } \cup { Existing(<<f>>) : f \in {g \in ModifierFiles : g.file = <<"M", ".", "j">>} }

Snapshots(category) ==
    IF category = "light" THEN LightSnapshots ELSE ModifierSnapshots

InitStore ==
    /\ lights = [l \in Lights |-> FreshLight("SPOT")]
    /\ rigs = Rigs
    /\ applied = [l \in Lights |-> 0]
    /\ fresh = [l \in Lights |-> 0]
    /\ last = NoOp
    /\ prev = Brief(NoOp)
    /\ \E dl \in LightSnapshots, dm \in ModifierSnapshots :
         disk = [light |-> dl, modifier |-> dm]
    /\ cache = [c \in Categories |-> NoCache]
    /\ answer = NoAnswer

\* files are written to or removed from a directory behind the add-on's back
DiskChanges ==
    \E c \in Categories : \E d \in Snapshots(c) :
        /\ d # disk[c]
        /\ disk' = [disk EXCEPT ![c] = d]
        /\ cache' = cache
        /\ answer' = [NoAnswer EXCEPT !.op = "disk"]

NextStore ==
    /\ (ListPresets \/ LoadByName \/ ReloadAssets \/ DiskChanges)
    /\ UNCHANGED scene_vars

SpecStore == InitStore /\ [][NextStore]_vars

----------------------------------------------------------------------------
(* One light, every record of the store *)

Init ==
    /\ \E t \in {"POINT", "SPOT"} :
         lights = [l \in Lights |-> IF l = 1 THEN FreshLight(t)
                                    ELSE FreshLight("SPOT")]
    /\ rigs = Rigs
    /\ applied = [l \in Lights |-> 0]
    /\ fresh = [l \in Lights |-> 0]
    /\ last = NoOp
    /\ prev = Brief(NoOp)
    /\ disk = AssetsDisk
    /\ cache = AssetsCache
    /\ answer = NoAnswer

ApplyPreset == \E n \in LightNames : SS_OT_apply_light_preset(1, n)

AddModifier == \E n \in ModifierNames : SS_OT_add_modifier(1, n, MaxMods)

ClearModifiers == SS_OT_clear_modifiers(1)

SetPower == \E v \in PowerInputs : SS_OT_set_power(1, v)

Next ==
    /\ (ApplyPreset \/ AddModifier \/ ClearModifiers \/ SetPower)
    /\ prev' = prev
    /\ UNCHANGED store_vars

Spec == Init /\ [][Next]_vars

(* Two lights, a few records of the store *)

InitPair ==
    /\ lights = [l \in Lights |-> FreshLight("SPOT")]
    /\ rigs = Rigs
    /\ applied = [l \in Lights |-> 0]
    /\ fresh = [l \in Lights |-> 0]
    /\ last = NoOp
    /\ prev = Brief(NoOp)
    /\ disk = AssetsDisk
    /\ cache = AssetsCache
    /\ answer = NoAnswer

PairApplyPreset ==
    \E l \in Lights, n \in PairLightNames : SS_OT_apply_light_preset(l, n)

PairAddModifier ==
    \E l \in Lights, n \in PairModifierNames :
        SS_OT_add_modifier(l, n, MaxModsPair)

PairClearModifiers == \E l \in Lights : SS_OT_clear_modifiers(l)

PairSetPower == \E l \in Lights, v \in PairPowerInputs : SS_OT_set_power(l, v)

NextPair ==
    /\ (PairApplyPreset \/ PairAddModifier \/ PairClearModifiers \/ PairSetPower)
    /\ prev' = prev
    /\ UNCHANGED store_vars

SpecPair == InitPair /\ [][NextPair]_vars

(* One light, a few records of the store, the last two operators recorded *)

SeqApplyPreset == \E n \in PairLightNames : SS_OT_apply_light_preset(1, n)

SeqAddModifier == \E n \in PairModifierNames : SS_OT_add_modifier(1, n, MaxMods)

SeqSetPower == \E v \in PowerInputs : SS_OT_set_power(1, v)

NextSeq ==
    /\ (SeqApplyPreset \/ SeqAddModifier \/ ClearModifiers \/ SeqSetPower)
    /\ prev' = Brief(last)
    /\ UNCHANGED store_vars

SpecSeq == Init /\ [][NextSeq]_vars

(* One light, a few records of the store, deep modifier stacks *)

DeepApplyPreset == \E n \in PairLightNames : SS_OT_apply_light_preset(1, n)

DeepAddModifier ==
    \E n \in PairModifierNames : SS_OT_add_modifier(1, n, MaxModsDeep)

DeepSetPower == \E v \in PairPowerInputs : SS_OT_set_power(1, v)

NextDeep ==
    /\ (DeepApplyPreset \/ DeepAddModifier \/ ClearModifiers \/ DeepSetPower)
    /\ prev' = prev
    /\ UNCHANGED store_vars

SpecDeep == Init /\ [][NextDeep]_vars

----------------------------------------------------------------------------
(* What the properties speak of *)

BaseLumens(l) == lights[l].props["ss_base_lumens"]

BaseAngle(l) == lights[l].props["ss_base_beam_angle"]

PowerPercent(l) == lights[l].props["ss_power_percent"]

EffectiveLumens(l) == lights[l].props["ss_effective_lumens"]

Stack(l) == Get(lights[l].props, "ss_modifiers", EmptyStr)

\* the LightSpec a configured light stores
StoredSpec(l) ==
    <<BaseLumens(l), BaseAngle(l), lights[l].props["ss_power_watts"],
      lights[l].temperature>>

\* base lumens >= 0 and base beam angle in (0, 180]
ValidSpec(l) ==
    /\ Configured(lights[l])
    /\ BaseLumens(l) >= 0
    /\ BaseAngle(l) > 0
    /\ BaseAngle(l) <= Num(180)

\* the EffectiveOutput of a configured light: lumens, energy, beam angle, blend
Output(l) ==
    <<EffectiveLumens(l), lights[l].energy, lights[l].spot_size,
      lights[l].spot_blend>>

\* the output implied by a LightSpec and a power percent alone
Baseline(base_lumens, base_angle, percent) ==
    <<(base_lumens \div Num(100)) * percent,
      ((base_lumens \div Num(100)) * percent) \div 100,
      Min((base_angle * Pi) \div Num(180), Pi),
      15>>

\* the last operator ran on light l and its engine call succeeded
LastRan(op, l) == last.op = op /\ last.l = l /\ last.ok

----------------------------------------------------------------------------
(* C1: the effective output is a pure function of (LightSpec, power        *)
(* percent, modifier stack): two lights that were brought by any two       *)
(* operator sequences to the same stored spec, the same power percent and  *)
(* the same stack have the same effective output.                          *)
C1_OutputIsFunctionOfInputs ==
    \A a, b \in Lights :
        (/\ Configured(lights[a]) /\ Configured(lights[b])
         /\ StoredSpec(a) = StoredSpec(b)
         /\ PowerPercent(a) = PowerPercent(b)
         /\ Stack(a) = Stack(b))
        => Output(a) = Output(b)

(* C2: round-trip law: after clear_modifiers on a configured light the     *)
(* effective output equals the output implied by the stored LightSpec and  *)
(* the current power percent alone.                                        *)
C2_ClearRestoresBaseline ==
    \A l \in Lights :
        (LastRan("clear_modifiers", l) /\ ValidSpec(l))
        => Output(l) = Baseline(BaseLumens(l), BaseAngle(l), PowerPercent(l))

(* C3: clear_modifiers on a configured light empties the stack, sets the   *)
(* effective lumens to the base lumens and the energy to base lumens / 100 *)
(* whatever the power percent is, the beam angle to the base beam angle    *)
(* and the blend to 0.15.                                                  *)
C3_ClearIgnoresPower ==
    \A l \in Lights :
        (LastRan("clear_modifiers", l) /\ ValidSpec(l))
        => /\ Stack(l) = EmptyStr
           /\ EffectiveLumens(l) = BaseLumens(l)
           /\ lights[l].energy * 100 = BaseLumens(l)
           /\ lights[l].spot_size = (BaseAngle(l) * Pi) \div Num(180)
           /\ lights[l].spot_blend = 15

\* a light dimmed to 50 % of 12000 lm is back at 12000 lm after the clear
C3_Witness ==
    /\ LastRan("clear_modifiers", 1)
    /\ ValidSpec(1)
    /\ PowerPercent(1) = Num(50)
    /\ BaseLumens(1) = Num(12000)
    /\ EffectiveLumens(1) = Num(12000)
    /\ lights[1].energy = Num(120)

(* C4: idempotent baseline: for a valid LightSpec, clear_modifiers run     *)
(* immediately after a successful apply_light_preset leaves the effective  *)
(* output as apply_light_preset left it.                                   *)
C4_ClearAfterPresetKeepsOutput ==
    [][\A l \in Lights :
         (/\ LastRan("apply_preset", l) /\ ValidSpec(l)
          /\ last'.op = "clear_modifiers" /\ last'.l = l)
         => Output(l)' = Output(l)]_vars

(* C5: after the first apply_light_preset on a light the power percent is  *)
(* 100, whatever ran on the light before; every later apply_light_preset   *)
(* keeps the power percent.                                                *)
C5_FirstPresetSetsFullPower ==
    [][\A l \in Lights :
         (last'.op = "apply_preset" /\ last'.l = l /\ last'.ok)
         => IF ~Configured(lights[l])
            THEN PowerPercent(l)' = Num(100)
            ELSE PowerPercent(l)' = PowerPercent(l)]_vars

(* C5 as amended: apply_light_preset sets the power percent to 100 exactly *)
(* when the light stores no power percent yet (no power change ran on it   *)
(* before); otherwise, on the first application as on every later one, the *)
(* stored percent is kept.                                                 *)
C5_PresetKeepsStoredPower ==
    [][\A l \in Lights :
         (last'.op = "apply_preset" /\ last'.l = l /\ last'.ok)
         => IF ~Has(lights[l].props, "ss_power_percent")
            THEN PowerPercent(l)' = Num(100)
            ELSE PowerPercent(l)' = PowerPercent(l)]_vars

\* a preset was applied for the first time to a light dimmed to 50 % before
C5_Witness ==
    /\ LastRan("apply_preset", 1)
    /\ fresh[1] = 0
    /\ applied[1] = 0
    /\ Stack(1) = EmptyStr
    /\ PowerPercent(1) = Num(50)
    /\ EffectiveLumens(1) = Num(6000)

(* C6: with an empty modifier stack, setting the power of a configured     *)
(* light to a percent in [0,100] and then to 100 leaves the effective      *)
(* lumens equal to the base lumens and the energy to base lumens / 100.    *)
C6_FullPowerRestoresBase ==
    \A l \in Lights :
        (/\ LastRan("set_power", l) /\ last.pct = Num(100)
         /\ prev.op = "set_power" /\ prev.l = l
         /\ prev.pct >= Num(0) /\ prev.pct <= Num(100)
         /\ Configured(lights[l])
         /\ Stack(l) = EmptyStr)
        => /\ EffectiveLumens(l) = BaseLumens(l)
           /\ lights[l].energy * 100 = BaseLumens(l)

\* 12000 lm dimmed to 50 % and set back to 100 %
C6_Witness ==
    /\ LastRan("set_power", 1) /\ last.pct = Num(100)
    /\ prev.op = "set_power" /\ prev.l = 1 /\ prev.pct = Num(50)
    /\ Configured(lights[1])
    /\ Stack(1) = EmptyStr
    /\ BaseLumens(1) = Num(12000)
    /\ EffectiveLumens(1) = Num(12000)

(* C7: apply_light_preset with a valid preset stores the preset's base     *)
(* lumens, base beam angle, watts and name, and sets the effective lumens  *)
(* to base * percent / 100, the energy to the effective lumens / 100, the  *)
(* beam angle to min(base angle, 180 degrees) and the blend to 0.15.       *)
C7_PresetSetsOutput ==
    \A l \in Lights :
        LastRan("apply_preset", l) =>
            LET d == load_preset_by_name(last.name, "light")
                lumens == Get(d["specs"], "lumens", Num(12000))
                angle == Get(d["specs"], "beam_angle_deg", Num(120))
            IN (lumens >= 0 /\ angle > 0 /\ angle <= Num(180)) =>
                 /\ BaseLumens(l) = lumens
                 /\ BaseAngle(l) = angle
                 /\ lights[l].props["ss_power_watts"]
                      = Get(d["specs"], "power_watts", Num(200))
                 /\ lights[l].props["ss_preset_name"] = Get(d, "name", Unknown)
                 /\ Output(l) = Baseline(lumens, angle, PowerPercent(l))

\* 12000 lm at 120 degrees on a light at full power: 12000, 120.0, 120, 0.15
C7_Witness ==
    /\ LastRan("apply_preset", 1) /\ last.name = <<"A">>
    /\ PowerPercent(1) = Num(100)
    /\ EffectiveLumens(1) = Num(12000)
    /\ lights[1].energy = Num(120)
    /\ lights[1].spot_size = Radians(Num(120))
    /\ lights[1].spot_blend = 15

\* the entries of the stored stack, as a power change counts them
StackEntries(l) == IF Stack(l) = EmptyStr THEN 0 ELSE SplitLen(Stack(l))

C9_ModifierUsesOwnLoss ==
    \A l \in Lights :
        (LastRan("add_modifier", l) /\ Configured(lights[l])) =>
            LET d == load_preset_by_name(last.name, "modifier")
                loss == Get(d["specs"], "light_loss_percent", 0)
            IN /\ EffectiveLumens(l)
                    = (BaseLumens(l) \div Num(100)) * (Num(100) - loss)
               /\ lights[l].energy * 100 = EffectiveLumens(l)

\* 12000 lm at 50 %, a softbox of 30 % loss on top of a grid: 8400
C9_Witness ==
    /\ LastRan("add_modifier", 1) /\ last.name = <<"S">>
    /\ Configured(lights[1])
    /\ BaseLumens(1) = Num(12000)
    /\ PowerPercent(1) = Num(50)
    /\ Stack(1) = <<"G", ",", "S">>
    /\ EffectiveLumens(1) = Num(8400)

(* C10: on a spot light a grid or softbox modifier sets the beam angle to  *)
(* the modifier's output beam angle (90 for a softbox that names none),    *)
(* whatever the angle was, and the blend to the grid's edge falloff        *)
(* (default 0.5) or the softbox's softness (default 0.75).                 *)
C10_GridAndSoftboxOverride ==
    \A l \in Lights :
        (LastRan("add_modifier", l) /\ lights[l].type = "SPOT") =>
            LET d == load_preset_by_name(last.name, "modifier")
                specs == d["specs"]
                type == Get(d, "type", "unknown")
            IN /\ (type = "grid" /\ Has(specs, "output_beam_angle_deg"))
                    => lights[l].spot_size
                         = (specs["output_beam_angle_deg"] * Pi) \div Num(180)
               /\ type = "grid"
                    => lights[l].spot_blend = Get(specs, "edge_falloff", 50)
               /\ type = "softbox"
                    => /\ lights[l].spot_size
                            = (Get(specs, "output_beam_angle_deg", Num(90)) * Pi)
                                \div Num(180)
                       /\ lights[l].spot_blend = Get(specs, "softness", 75)

\* a 40 degree grid on a light that a softbox had set to 60 degrees
C10_Witness ==
    /\ LastRan("add_modifier", 1) /\ last.name = <<"G">>
    /\ lights[1].type = "SPOT"
    /\ Stack(1) = <<"T", ",", "G">>
    /\ lights[1].spot_size = Radians(Num(40))
    /\ lights[1].spot_blend = 30

(* C11: on a spot light a diffuser sets the beam angle to                  *)
(* min(base angle + beam angle modifier, 180 degrees), computed from the   *)
(* stored base angle and not from the current angle: the result is the     *)
(* same after a grid, after the same diffuser, or on the unmodified light. *)
C11_DiffuserAddsToBase ==
    \A l \in Lights :
        (LastRan("add_modifier", l) /\ Configured(lights[l])) =>
            LET d == load_preset_by_name(last.name, "modifier")
                widening == Get(d["specs"], "beam_angle_modifier_deg", 0)
                widened == BaseAngle(l) + widening
            IN Get(d, "type", "unknown") = "diffuser"
                 => lights[l].spot_size
                      = ((IF widened <= Num(180) THEN widened ELSE Num(180)) * Pi)
                          \div Num(180)

\* base 170 degrees plus 30, after a 40 degree grid: 180 degrees
C11_Witness ==
    /\ LastRan("add_modifier", 1) /\ last.name = <<"D">>
    /\ Configured(lights[1])
    /\ BaseAngle(1) = Num(170)
    /\ Stack(1) = <<"G", ",", "D">>
    /\ lights[1].spot_size = Radians(Num(180))
    /\ lights[1].spot_blend = 60

\* the comma-joined stack after one more name
Appended(stack, name) ==
    IF stack = EmptyStr THEN name ELSE stack \o <<",">> \o name

\* a successful apply_modifier_to_light on light l is the step being taken
AddsModifier(l) ==
    last'.op = "add_modifier" /\ last'.l = l /\ last'.ok

(* C12: apply_modifier_to_light on a light that is not a spot light leaves *)
(* the beam angle and the blend unchanged whatever the modifier's kind,    *)
(* still reduces the effective lumens and the energy by the modifier's     *)
(* light loss and still appends the modifier to the stack.                 *)
C12_NonSpotKeepsShape ==
    [][\A l \in Lights :
         (AddsModifier(l) /\ lights[l].type # "SPOT") =>
            LET d == load_preset_by_name(last'.name, "modifier")
                loss == Get(d["specs"], "light_loss_percent", 0)
                base == Get(lights[l].props, "ss_base_lumens",
                            lights[l].energy * 100)
            IN /\ lights'[l].spot_size = lights[l].spot_size
               /\ lights'[l].spot_blend = lights[l].spot_blend
               /\ lights'[l].props["ss_effective_lumens"]
                    = (base * (100 - loss \div 100)) \div 100
               /\ lights'[l].energy * 100
                    = lights'[l].props["ss_effective_lumens"]
               /\ lights'[l].props["ss_modifiers"]
                    = Appended(Stack(l), Get(d, "name", Unknown))]_vars

\* a 40 degree grid of 20 % loss on a point light of energy 10
C12_Witness ==
    /\ LastRan("add_modifier", 1) /\ last.name = <<"G">>
    /\ lights[1].type = "POINT"
    /\ lights[1].spot_size = Radians(Num(45))
    /\ lights[1].spot_blend = 15
    /\ lights[1].energy = Num(8)
    /\ Stack(1) = <<"G">>

(* C13: a modifier whose kind is none of grid, diffuser, softbox leaves    *)
(* the beam angle and the blend as earlier modifiers or the preset set     *)
(* them; only the effective lumens, the energy and the stack change.       *)
C13_OtherKindKeepsShape ==
    [][\A l \in Lights :
         (/\ AddsModifier(l)
          /\ Get(load_preset_by_name(last'.name, "modifier"), "type", "unknown")
               \notin {"grid", "diffuser", "softbox"})
         => /\ lights'[l].spot_size = lights[l].spot_size
            /\ lights'[l].spot_blend = lights[l].spot_blend
            /\ lights'[l].type = lights[l].type
            /\ lights'[l].temperature = lights[l].temperature
            /\ DOMAIN lights'[l].props
                 = DOMAIN lights[l].props
                     \cup {"ss_modifiers", "ss_effective_lumens"}
            /\ \A k \in DOMAIN lights[l].props
                          \ {"ss_modifiers", "ss_effective_lumens"} :
                 lights'[l].props[k] = lights[l].props[k]]_vars

\* a modifier without kind on a light that a grid had set to 40 degrees
C13_Witness ==
    /\ LastRan("add_modifier", 1) /\ last.name = <<"a", ",", "b">>
    /\ Configured(lights[1])
    /\ Stack(1) = <<"G", ",", "a", ",", "b">>
    /\ lights[1].spot_size = Radians(Num(40))
    /\ lights[1].spot_blend = 30
    /\ EffectiveLumens(1) = 0

\* str.split(','): the pieces of s between its commas
RECURSIVE Split(_)
Split(s) ==
    IF s = << >> THEN << << >> >>
    ELSE IF Head(s) = "," THEN << << >> >> \o Split(Tail(s))
    ELSE LET rest == Split(Tail(s))
         IN << <<Head(s)>> \o Head(rest) >> \o Tail(rest)

\* the entries of a stored stack; the empty string is the empty stack
Entries(stack) == IF stack = EmptyStr THEN << >> ELSE Split(stack)

(* C14: every successful apply_modifier_to_light appends the modifier's    *)
(* name at the end of the light's modifier stack: the entries after the    *)
(* call are the entries before it, in their order, followed by exactly one *)
(* new entry, the name, whether or not the name was already present.       *)
C14_AppendsOneEntry ==
    [][\A l \in Lights :
         AddsModifier(l) =>
            LET d == load_preset_by_name(last'.name, "modifier")
            IN Entries(lights'[l].props["ss_modifiers"])
                 = Append(Entries(Stack(l)), Get(d, "name", Unknown))]_vars

\* a value brought into [0, 100]
Clamped(value) ==
    IF value < Num(0) THEN Num(0)
    ELSE IF value > Num(100) THEN Num(100)
    ELSE value

(* C15: setting the power percent never fails on an out-of-range value:    *)
(* the value is clamped to [0,100] before it is stored and before the      *)
(* lumens are computed from it, so the stored power percent is in [0,100]  *)
(* in every reachable state.                                               *)
C15_PowerPercentClamped ==
    \A l \in Lights :
        /\ Has(lights[l].props, "ss_power_percent")
             => (PowerPercent(l) >= Num(0) /\ PowerPercent(l) <= Num(100))
        /\ (last.op = "set_power" /\ last.l = l)
             => /\ last.ok
                /\ Has(lights[l].props, "ss_power_percent")
                /\ PowerPercent(l) = Clamped(last.pct)
                /\ EffectiveLumens(l)
                     = (((Get(lights[l].props, "ss_base_lumens", Num(12000))
                            \div Num(100)) * Clamped(last.pct))
                          * (100 - 15 * StackEntries(l))) \div 100

\* 150 percent asked of the 20000 lm preset
C15_Witness ==
    /\ LastRan("set_power", 1) /\ last.pct = Num(150)
    /\ Configured(lights[1])
    /\ BaseLumens(1) = Num(20000)
    /\ PowerPercent(1) = Num(100)
    /\ Stack(1) = EmptyStr
    /\ EffectiveLumens(1) = Num(20000)

(* C16: a power-percent change leaves the modifier stack, the base spec    *)
(* (base lumens, base beam angle, watts, preset name), the colour          *)
(* temperature, the light's type, the current beam angle and the blend     *)
(* unchanged; it changes only the power percent, the effective lumens and  *)
(* the energy.                                                             *)
C16_PowerChangeFrame ==
    [][\A l \in Lights :
         (last'.op = "set_power" /\ last'.l = l)
         => /\ lights'[l].spot_size = lights[l].spot_size
            /\ lights'[l].spot_blend = lights[l].spot_blend
            /\ lights'[l].type = lights[l].type
            /\ lights'[l].temperature = lights[l].temperature
            /\ Get(lights'[l].props, "ss_modifiers", EmptyStr) = Stack(l)
            /\ DOMAIN lights'[l].props
                 = DOMAIN lights[l].props
                     \cup {"ss_power_percent", "ss_effective_lumens"}
            /\ \A k \in DOMAIN lights[l].props
                          \ {"ss_power_percent", "ss_effective_lumens"} :
                 lights'[l].props[k] = lights[l].props[k]]_vars

\* the 12000 lm preset under a softbox (90 degrees, blend .75) set to 50 %
C16_Witness ==
    /\ LastRan("set_power", 1) /\ last.pct = Num(50)
    /\ Configured(lights[1])
    /\ BaseLumens(1) = Num(12000)
    /\ Stack(1) = <<"S">>
    /\ lights[1].spot_size = Radians(Num(90))
    /\ lights[1].spot_blend = 75
    /\ EffectiveLumens(1) = Num(5100)

\* the stored power percent, base lumens and base beam angle of a light,
\* each with whether it is stored at all
Persistent(light_data) ==
    [k \in {"ss_power_percent", "ss_base_lumens", "ss_base_beam_angle"}
       |-> <<Has(light_data.props, k), Get(light_data.props, k, 0)>>]

(* C17: the stored power percent persists across modifier changes:         *)
(* apply_modifier_to_light and clear_modifiers never change the power      *)
(* percent, nor the base lumens and the base beam angle of the light.      *)
C17_ModifierChangesKeepPower ==
    [][\A l \in Lights :
         (last'.op \in {"add_modifier", "clear_modifiers"} /\ last'.l = l)
         => Persistent(lights'[l]) = Persistent(lights[l])]_vars

\* the 20000 lm preset at 50 %, its modifiers cleared: the lumens are back
\* at the base, the stored percent is still 50
C17_Witness ==
    /\ LastRan("clear_modifiers", 1)
    /\ Configured(lights[1])
    /\ PowerPercent(1) = Num(50)
    /\ BaseLumens(1) = Num(20000)
    /\ BaseAngle(1) = Num(170)
    /\ EffectiveLumens(1) = Num(20000)

(* C18: the effective lumens are >= 0 in every reachable state: for base   *)
(* lumens >= 0, power percent in [0,100] and modifiers with light loss in  *)
(* [0,100], no sequence of preset, power, add-modifier and clear           *)
(* operations, a power change with seven or more modifiers in the stack    *)
(* included, makes the effective lumens or the energy negative.            *)
C18_LumensNeverNegative ==
    \A l \in Lights :
        /\ lights[l].energy >= 0
        /\ Has(lights[l].props, "ss_effective_lumens")
             => EffectiveLumens(l) >= 0

(* C19: after each of apply_light_preset, update_power_percent,            *)
(* apply_modifier_to_light and clear_modifiers, the light's energy equals  *)
(* its stored effective lumens divided by 100.                             *)
C19_EnergyIsLumensOver100 ==
    \A l \in Lights :
        (/\ last.op \in {"apply_preset", "set_power", "add_modifier",
                         "clear_modifiers"}
         /\ last.l = l /\ last.ok)
        => /\ Has(lights[l].props, "ss_effective_lumens")
           /\ lights[l].energy = EffectiveLumens(l) \div 100

\* the diffuser of 10 % loss on the 12000 lm preset: 10800 lm, energy 108
C19_Witness ==
    /\ LastRan("add_modifier", 1) /\ last.name = <<"D">>
    /\ Configured(lights[1])
    /\ BaseLumens(1) = Num(12000)
    /\ EffectiveLumens(1) = Num(10800)
    /\ lights[1].energy = Num(108)

\* what apply_light_preset stores of the preset
BaseKeys == {"ss_base_lumens", "ss_base_beam_angle", "ss_preset_name"}

(* C20: per light, the lifecycle is Unconfigured -> Configured on the      *)
(* first successful apply_light_preset and only then: a successful         *)
(* apply_light_preset leaves the light Configured (base lumens, base beam  *)
(* angle and preset name stored), a Configured light stays Configured      *)
(* under every later preset, power, add-modifier and clear operation, and  *)
(* no other operation, nor a refused preset, stores any of the three on an *)
(* Unconfigured light.                                                     *)
C20_ConfiguredOnlyByPreset ==
    [][\A l \in Lights :
         LET applies == last'.op = "apply_preset" /\ last'.l = l /\ last'.ok
         IN /\ applies => BaseKeys \subseteq DOMAIN lights'[l].props
            /\ BaseKeys \subseteq DOMAIN lights[l].props
                 => BaseKeys \subseteq DOMAIN lights'[l].props
            /\ (BaseKeys \cap DOMAIN lights[l].props = {} /\ ~applies)
                 => BaseKeys \cap DOMAIN lights'[l].props = {}
            /\ Configured(lights'[l])
                 <=> BaseKeys \subseteq DOMAIN lights'[l].props]_vars

\* a preset applied to a light that was dimmed to 50 % and given a softbox
\* while it had no preset
C20_Witness ==
    /\ LastRan("apply_preset", 1) /\ last.name = <<"A">>
    /\ BaseKeys \subseteq DOMAIN lights[1].props
    /\ lights[1].props["ss_preset_name"] = <<"A">>
    /\ PowerPercent(1) = Num(50)
    /\ Stack(1) = <<"S">>
    /\ EffectiveLumens(1) = Num(6000)

\* a preset record whose lumens are negative or whose beam angle is outside
\* (0, 180], with the defaults apply_light_preset reads for absent fields
InvalidSpec(preset_data) ==
    /\ Truthy(preset_data)
    /\ Has(preset_data, "specs")
    /\ LET specs == preset_data["specs"]
           lumens == Get(specs, "lumens", Num(12000))
           angle == Get(specs, "beam_angle_deg", Num(120))
       IN lumens < 0 \/ angle <= 0 \/ angle > Num(180)

(* C21: apply_light_preset fails (returns without success) when the        *)
(* preset's lumens are negative or its beam angle is outside (0,180], and  *)
(* in that case leaves the light's state unchanged.                        *)
C21_InvalidSpecRefused ==
    [][\A l \in Lights :
         (/\ last'.op = "apply_preset" /\ last'.l = l
          /\ InvalidSpec(load_preset_by_name(last'.name, "light")))
         => (~last'.ok /\ lights'[l] = lights[l])]_vars

(* C22: no partial mutation on failure: whenever applying a preset or      *)
(* adding a modifier does not succeed (the name is not found in the store, *)
(* or the record has no 'specs'), the operation changes nothing: the       *)
(* light's type, energy, beam angle, blend, stored spec, power percent and *)
(* modifier stack, and the parent rig's "Show Diffuser" flag, all keep     *)
(* their previous values.                                                  *)
C22_FailureChangesNothing ==
    [][\A l \in Lights :
         (/\ last'.op \in {"apply_preset", "add_modifier"}
          /\ last'.l = l
          /\ ~last'.ok)
         => (lights'[l] = lights[l] /\ rigs'[l] = rigs[l])]_vars

\* the files of a directory that end in .json and hold a JSON object
ReadableFiles(directory) ==
    IF directory.exists
    THEN { directory.files[i] : i \in { k \in DOMAIN directory.files :
               /\ EndsWithJson(directory.files[k].file)
               /\ directory.files[k].json = "object" } }
    ELSE {}

(* C23: get_light_presets and get_modifier_presets return their entries    *)
(* sorted in ascending case-sensitive order of name, where an entry's name *)
(* is the record's 'name' field or the file name when the field is absent; *)
(* every readable .json record of the directory appears exactly once.      *)
(* (Stated of the calls that return; a call that raises is C24's matter.)  *)
C23_ListingSortedAndComplete ==
    (answer.op = "get_presets" /\ ~answer.raised) =>
        LET presets == answer.presets
            readable == ReadableFiles(disk[answer.category])
        IN /\ \A i, j \in DOMAIN presets :
                i < j => ~StrLess(presets[j].name, presets[i].name)
           /\ \A i \in DOMAIN presets :
                presets[i].name = IF Has(presets[i].data, "name")
                                  THEN presets[i].data["name"]
                                  ELSE presets[i].file
           /\ Len(presets) = Cardinality(readable)
           /\ \A f \in readable :
                Cardinality({ i \in DOMAIN presets :
                                /\ presets[i].file = f.file
                                /\ presets[i].data = f.data }) = 1

\* os.listdir gives a.j, then E.j: the record without name is listed under
\* its file name, and "E.j" sorts before "a"
C23_Witness ==
    /\ answer.op = "get_presets" /\ answer.category = "light"
    /\ ~answer.raised
    /\ Len(disk["light"].files) = 2
    /\ disk["light"].files[1].file = <<"a", ".", "j">>
    /\ disk["light"].files[2].file = <<"E", ".", "j">>
    /\ Len(answer.presets) = 2
    /\ answer.presets[1].name = <<"E", ".", "j">>
    /\ answer.presets[2].name = <<"a">>

\* a file the listing can use: a .json file that holds a JSON object whose
\* name, if it has one, is a string
WellFormed(f) ==
    /\ EndsWithJson(f.file)
    /\ f.json = "object"
    /\ IsStr(Get(f.data, "name", f.file))

(* C24: a malformed preset record never makes a listing fail: for any mix  *)
(* of well-formed and malformed records in the directory,                  *)
(* get_light_presets / get_modifier_presets completes and returns exactly  *)
(* the well-formed records, with the malformed ones skipped.               *)
C24_MalformedNeverFatal ==
    answer.op = "get_presets" =>
        /\ ~answer.raised
        /\ { answer.presets[i].file : i \in DOMAIN answer.presets }
             = { f.file : f \in { g \in ReadableFiles(disk[answer.category]) :
                                    WellFormed(g) } }

(* C25: the preset listings are cached process-wide and invalidated only   *)
(* by reload_assets: once a listing has been computed (an empty listing    *)
(* for a missing directory included), every later listing and             *)
(* load_preset_by_name of that category returns the cached content         *)
(* whatever changes on disk, until reload_assets is called; the first      *)
(* listing after reload_assets reflects the directory's content at that    *)
(* time, and reload_assets invalidates both caches.                        *)
C25_CachedUntilReload ==
    [][\A c \in Categories :
         LET asked == answer'.op \in {"get_presets", "load_preset_by_name"}
                        /\ answer'.category = c
         IN /\ (cache[c].set /\ asked)
                 => /\ cache'[c] = cache[c]
                    /\ answer'.op = "get_presets"
                         => answer'.presets = cache[c].presets
                    /\ answer'.op = "load_preset_by_name"
                         => answer'.data = FirstNamed(cache[c].presets, answer'.name)
            /\ (~cache[c].set /\ asked)
                 => /\ cache'[c].set
                    /\ { cache'[c].presets[i].file : i \in DOMAIN cache'[c].presets }
                         = { f.file : f \in ReadableFiles(disk[c]) }
                    /\ answer'.op = "get_presets"
                         => answer'.presets = cache'[c].presets
            /\ (cache[c].set /\ cache'[c] # cache[c])
                 => answer'.op = "reload_assets"
            /\ answer'.op = "reload_assets" => ~cache'[c].set]_vars

\* B.j was listed, a.j was written afterwards: the listing still has B alone
C25_Witness ==
    /\ answer.op = "get_presets" /\ answer.category = "light"
    /\ disk["light"].exists /\ Len(disk["light"].files) = 2
    /\ cache["light"].set
    /\ Len(answer.presets) = 1
    /\ answer.presets[1].name = <<"B">>
    /\ cache["modifier"].set /\ cache["modifier"].presets = << >>

(* C26: load_preset_by_name(name, category) returns the data of a listed   *)
(* preset of that category whose name equals name exactly, and returns     *)
(* None if and only if no listed preset of that category has that name;    *)
(* when several records share the name it returns the first one in listing *)
(* order, and a light name is never resolved against the modifier listing  *)
(* or vice versa.                                                          *)
C26_LoadByNameFindsFirst ==
    (answer.op = "load_preset_by_name" /\ ~answer.raised) =>
        LET listing == cache[answer.category].presets
            matches == { i \in DOMAIN listing : listing[i].name = answer.name }
        IN /\ cache[answer.category].set
           /\ (answer.data = None) <=> (matches = {})
           /\ matches # {}
                => \E i \in matches :
                     /\ answer.data = listing[i].data
                     /\ \A j \in matches : i <= j

\* two light files are named B, B2.j first in the directory, and a modifier
\* is named B as well: the light B is the record of B2.j
C26_Witness ==
    /\ answer.op = "load_preset_by_name" /\ answer.category = "light"
    /\ answer.name = <<"B">>
    /\ Len(disk["light"].files) = 2
    /\ disk["light"].files[1].file = <<"B", "2", ".", "j">>
    /\ disk["light"].files[2].file = <<"B", ".", "j">>
    /\ Len(disk["modifier"].files) = 1
    /\ disk["modifier"].files[1].data["name"] = <<"B">>
    /\ answer.data = [name |-> <<"B">>, specs |-> [lumens |-> Num(8000)]]

(* C27: operations on different light instances are independent: a preset, *)
(* power, add-modifier or clear operation on one light leaves the spec,    *)
(* power percent, modifier stack and effective output of every other light *)
(* (and its rig) unchanged, so an interleaving of operations on two lights *)
(* ends in the per-light states of running each light's operations alone.  *)
C27_LightsIndependent ==
    [][\A l, m \in Lights :
         (last'.op # "none" /\ last'.l = l /\ m # l)
         => (lights'[m] = lights[m] /\ rigs'[m] = rigs[m])]_vars

\* light 1 carries preset A dimmed to 50 % under a softbox while preset B is
\* applied to light 2
C27_Witness ==
    /\ LastRan("apply_preset", 2) /\ last.name = <<"B">>
    /\ Configured(lights[1]) /\ Configured(lights[2])
    /\ BaseLumens(1) = Num(12000) /\ BaseLumens(2) = Num(20000)
    /\ PowerPercent(1) = Num(50) /\ PowerPercent(2) = Num(100)
    /\ Stack(1) = <<"S">> /\ Stack(2) = EmptyStr
    /\ rigs[1].show
    /\ EffectiveLumens(2) = Num(20000)

(* C28: apply_light_preset on a light whose modifier stack is non-empty    *)
(* leaves the stack unchanged while it resets the energy, the effective    *)
(* lumens, the beam angle and the blend to the unmodified values of the    *)
(* new preset (at the stored power percent): in the resulting state the    *)
(* stack lists modifiers whose loss and shaping are not in the output.     *)
C28_PresetKeepsStack ==
    [][\A l \in Lights :
         (/\ last'.op = "apply_preset" /\ last'.l = l /\ last'.ok
          /\ Stack(l) # EmptyStr)
         => LET d == load_preset_by_name(last'.name, "light")
                lumens == Get(d["specs"], "lumens", Num(12000))
                angle == Get(d["specs"], "beam_angle_deg", Num(120))
                after == lights'[l]
            IN /\ after.props["ss_modifiers"] = Stack(l)
               /\ (angle > 0 /\ angle <= Num(180))
                    => <<after.props["ss_effective_lumens"], after.energy,
                         after.spot_size, after.spot_blend>>
                         = Baseline(lumens, angle, after.props["ss_power_percent"])]_vars

\* preset B applied over a 40 degree grid: the grid stays in the stack, the
\* light has the 170 degrees and the 20000 lm of B
C28_Witness ==
    /\ LastRan("apply_preset", 1) /\ last.name = <<"B">>
    /\ Stack(1) = <<"G">>
    /\ PowerPercent(1) = Num(100)
    /\ EffectiveLumens(1) = Num(20000)
    /\ lights[1].energy = Num(200)
    /\ lights[1].spot_size = Radians(Num(170))
    /\ lights[1].spot_blend = 15

(* C29: on a light that never had a preset applied (no stored base         *)
(* lumens), apply_modifier_to_light takes the current energy * 100 as the  *)
(* base, so each modifier multiplies the energy it finds by (1 - loss) and *)
(* successive modifiers compound their losses; clear_modifiers then leaves *)
(* the energy at its value just before the call instead of restoring the   *)
(* energy the light had before the first modifier.                         *)
C29_UnconfiguredCompounds ==
    [][\A l \in Lights :
         ~Configured(lights[l]) =>
            /\ AddsModifier(l)
                 => LET d == load_preset_by_name(last'.name, "modifier")
                        loss == Get(d["specs"], "light_loss_percent", 0)
                    IN /\ lights'[l].energy
                            = (lights[l].energy * (100 - loss \div 100)) \div 100
                       /\ lights'[l].props["ss_effective_lumens"]
                            = lights[l].energy * (100 - loss \div 100)
            /\ (last'.op = "clear_modifiers" /\ last'.l = l)
                 => /\ lights'[l].energy = lights[l].energy
                    /\ lights'[l].props["ss_effective_lumens"]
                         = lights[l].energy * 100
                    /\ lights'[l].props["ss_modifiers"] = EmptyStr
                    /\ ~Configured(lights'[l])]_vars

\* a light of energy 10 under a softbox of 30 % loss, then cleared: the
\* energy stays 7
C29_Witness ==
    /\ LastRan("clear_modifiers", 1)
    /\ ~Configured(lights[1])
    /\ Stack(1) = EmptyStr
    /\ Has(lights[1].props, "ss_effective_lumens")
    /\ EffectiveLumens(1) = Num(700)
    /\ lights[1].energy = Num(7)

(* C30: the number of modifiers that update_power_percent counts (the      *)
(* entries of the comma-joined 'ss_modifiers' string) equals the number of *)
(* successful apply_modifier_to_light calls since the last clear_modifiers *)
(* (or since creation), for every sequence of operations and every         *)
(* modifier name, a name that is empty or contains a comma included; it is *)
(* 0 exactly when the stack is empty.                                      *)
C30_CountMatchesApplies ==
    \A l \in Lights :
        /\ StackEntries(l) = applied[l]
        /\ (StackEntries(l) = 0) <=> (Stack(l) = EmptyStr)

====
